---- MODULE Spec2Model ----
(***************************************************************************)
(* Payment-flow controllers of the smart payment buttons:                  *)
(*   - the wallet-capture (one-click) flow, src/payment-flows/             *)
(*     wallet-capture.js, checked under SpecWallet;                        *)
(*   - the native (app-switch) flow, src/payment-flows/native.js, checked  *)
(*     under Spec.                                                         *)
(* Promises are ZalgoPromises: a callback chained on a settled promise     *)
(* runs in the same step, so one action is one run-to-completion segment   *)
(* of the code between two external asynchronous results.                  *)
(***************************************************************************)
EXTENDS Integers, Sequences, FiniteSets

\* ------------------------------------------------------------------------
\* Bounds of the model
\* ------------------------------------------------------------------------
MaxRuns == 2
MaxOrderID == 2
MaxWalletClose == 1

OrderIDs == 1..MaxOrderID

\* ------------------------------------------------------------------------
\* State of one wallet-capture flow instance
\* ------------------------------------------------------------------------
VARIABLES
    wpc,          \* position of the current start() run
    wRuns,        \* number of start() calls made so far
    wOrderID,     \* orderID that createOrder resolved with in this run (0: none)
    wOrder,       \* checkoutSession that getSupplementalOrderInfo resolved with
    wApprove,     \* oneClickApproveOrder calls of this run (their orderID)
    wApproval,    \* how the approval call of this run settled
    wOnApprove,   \* number of onApprove invocations in this run
    wFallback,    \* fallbackToWebCheckout calls of this run (their cause)
    wCheckout,    \* payments handed to checkout.init in this run
    wOutcome,     \* outcome of the promise start() returned
    wrpc,         \* position of a restart() the merchant called from onApprove
    wClose        \* number of close() calls

wvars == << wpc, wRuns, wOrderID, wOrder, wApprove, wApproval, wOnApprove, wFallback,
            wCheckout, wOutcome, wrpc, wClose >>

NoOrder == [isShippingAddressRequired |-> FALSE, shippingAddress |-> "unknown"]

\* The order.checkoutSession values the lookup may resolve with: the flag, and
\* a shipping address that is absent, partial or full.
CheckoutSessions ==
    [isShippingAddressRequired : BOOLEAN, shippingAddress : {"absent", "partial", "full"}]

WalletInit ==
    /\ wpc = "idle"
    /\ wRuns = 0
    /\ wOrderID = 0
    /\ wOrder = NoOrder
    /\ wApprove = << >>
    /\ wApproval = "none"
    /\ wOnApprove = 0
    /\ wFallback = << >>
    /\ wCheckout = << >>
    /\ wOutcome = "none"
    /\ wrpc = "idle"
    /\ wClose = 0

\* shippingRequired without the isFullAddress test: any address at all counts.
shippingRequiredAnyAddress(session) ==
    IF ~session.isShippingAddressRequired
    THEN FALSE
    ELSE IF session.shippingAddress # "absent"
         THEN FALSE
         ELSE TRUE

\* shippingRequired's decision on the looked-up order.
shippingRequired(session) ==
    IF ~session.isShippingAddressRequired
    THEN FALSE
    ELSE IF session.shippingAddress = "full"
         THEN FALSE
         ELSE TRUE

\* The payment fallbackToWebCheckout hands to checkout.init.
walletCheckoutPayment(authCode) ==
    [authCode |-> authCode, isClick |-> FALSE,
     buyerIntent |-> "pay_with_different_funding_shipping"]

\* start(): ZalgoPromise.try(createOrder); every call is a fresh run.
walletStart ==
    /\ wpc \in {"idle", "done"}
    /\ wrpc \in {"idle", "done"}
    /\ wRuns < MaxRuns
    /\ wRuns' = wRuns + 1
    /\ wpc' = "createOrder"
    /\ wOrderID' = 0
    /\ wOrder' = NoOrder
    /\ wApprove' = << >>
    /\ wApproval' = "none"
    /\ wOnApprove' = 0
    /\ wFallback' = << >>
    /\ wCheckout' = << >>
    /\ wOutcome' = "pending"
    /\ wrpc' = "idle"
    /\ UNCHANGED wClose

\* A variant that issues the approval as soon as the order exists.
WalletOrderCreatedApprovesAtOnce ==
    /\ wpc = "createOrder"
    /\ \E id \in OrderIDs : wOrderID' = id /\ wApprove' = Append(wApprove, id)
    /\ wpc' = "approve"
    /\ UNCHANGED << wApproval, wRuns, wOrder, wOnApprove, wFallback, wCheckout,
                    wOutcome, wrpc, wClose >>

\* createOrder resolved: shippingRequired(orderID) issues the order lookup.
WalletOrderCreated ==
    /\ wpc = "createOrder"
    /\ \E id \in OrderIDs : wOrderID' = id
    /\ wpc' = "lookup"
    /\ UNCHANGED << wApproval, wRuns, wOrder, wApprove, wOnApprove, wFallback, wCheckout,
                    wOutcome, wrpc, wClose >>

\* createOrder threw or rejected: start() rejects with that error.
WalletOrderFailed ==
    /\ wpc = "createOrder"
    /\ wpc' = "done"
    /\ wOutcome' = "rejected_createOrder"
    /\ UNCHANGED << wApproval, wRuns, wOrderID, wOrder, wApprove, wOnApprove, wFallback,
                    wCheckout, wrpc, wClose >>

\* getSupplementalOrderInfo resolved: shipping required goes to
\* fallbackToWebCheckout (token exchange issued), otherwise
\* oneClickApproveOrder is issued with the run's orderID.
WalletShippingChecked ==
    /\ wpc = "lookup"
    /\ \E session \in CheckoutSessions :
          /\ wOrder' = session
          /\ IF shippingRequired(session)
             THEN /\ wFallback' = Append(wFallback, "shipping")
                  /\ wpc' = "exchange"
                  /\ UNCHANGED wApprove
             ELSE /\ wApprove' = Append(wApprove, wOrderID)
                  /\ wpc' = "approve"
                  /\ UNCHANGED wFallback
    /\ UNCHANGED << wApproval, wRuns, wOrderID, wOnApprove, wCheckout, wOutcome, wrpc, wClose >>

\* getSupplementalOrderInfo rejected: start() rejects with that error.
WalletLookupFailed ==
    /\ wpc = "lookup"
    /\ wpc' = "done"
    /\ wOutcome' = "rejected_lookup"
    /\ UNCHANGED << wApproval, wRuns, wOrderID, wOrder, wApprove, wOnApprove, wFallback,
                    wCheckout, wrpc, wClose >>

\* oneClickApproveOrder resolved: onApprove({ payerID }, { restart }).
WalletApproved ==
    /\ wpc = "approve"
    /\ wOnApprove' = wOnApprove + 1
    /\ wApproval' = "resolved"
    /\ wpc' = "onApprove"
    /\ UNCHANGED << wRuns, wOrderID, wOrder, wApprove, wFallback, wCheckout,
                    wOutcome, wrpc, wClose >>

\* oneClickApproveOrder rejected and the rejection handed on to the caller,
\* as a start() without the error handler would do.
WalletApproveFailedPropagates ==
    /\ wpc = "approve"
    /\ wApproval' = "rejected"
    /\ wpc' = "done"
    /\ wOutcome' = "rejected_approve"
    /\ UNCHANGED << wRuns, wOrderID, wOrder, wApprove, wOnApprove, wFallback,
                    wCheckout, wrpc, wClose >>

\* oneClickApproveOrder rejected: logged, then fallbackToWebCheckout.
WalletApproveFailed ==
    /\ wpc = "approve"
    /\ wFallback' = Append(wFallback, "approve_error")
    /\ wApproval' = "rejected"
    /\ wpc' = "exchange"
    /\ UNCHANGED << wRuns, wOrderID, wOrder, wApprove, wOnApprove, wCheckout,
                    wOutcome, wrpc, wClose >>

\* The merchant's onApprove settled: its outcome is start()'s outcome.
WalletOnApproveSettled ==
    /\ wpc = "onApprove"
    /\ wpc' = "done"
    /\ \E o \in {"resolved", "rejected_onApprove"} : wOutcome' = o
    /\ UNCHANGED << wApproval, wRuns, wOrderID, wOrder, wApprove, wOnApprove, wFallback,
                    wCheckout, wrpc, wClose >>

\* exchangeAccessTokenForAuthCode resolved: checkout.init(...).start().
WalletTokenExchanged ==
    /\ wpc = "exchange"
    /\ wCheckout' = Append(wCheckout, walletCheckoutPayment("authCode"))
    /\ wpc' = "checkout"
    /\ UNCHANGED << wApproval, wRuns, wOrderID, wOrder, wApprove, wOnApprove, wFallback,
                    wOutcome, wrpc, wClose >>

\* exchangeAccessTokenForAuthCode rejected: the fallback fails, start() rejects.
WalletTokenExchangeFailed ==
    /\ wpc = "exchange"
    /\ wpc' = "done"
    /\ wOutcome' = "rejected_exchange"
    /\ UNCHANGED << wApproval, wRuns, wOrderID, wOrder, wApprove, wOnApprove, wFallback,
                    wCheckout, wrpc, wClose >>

\* The web checkout's start() settled: its outcome is start()'s outcome.
WalletCheckoutSettled ==
    /\ wpc = "checkout"
    /\ wpc' = "done"
    /\ \E o \in {"resolved", "rejected_checkout"} : wOutcome' = o
    /\ UNCHANGED << wApproval, wRuns, wOrderID, wOrder, wApprove, wOnApprove, wFallback,
                    wCheckout, wrpc, wClose >>

\* restart(), the action handed to onApprove: fallbackToWebCheckout again.
walletRestart ==
    /\ wOnApprove > 0
    /\ wrpc = "idle"
    /\ wFallback' = Append(wFallback, "restart")
    /\ wrpc' = "exchange"
    /\ UNCHANGED << wApproval, wpc, wRuns, wOrderID, wOrder, wApprove, wOnApprove, wCheckout,
                    wOutcome, wClose >>

\* The restart's token exchange resolved: checkout.init(...).start().
WalletRestartExchanged ==
    /\ wrpc = "exchange"
    /\ wCheckout' = Append(wCheckout, walletCheckoutPayment("authCode"))
    /\ wrpc' = "done"
    /\ UNCHANGED << wApproval, wpc, wRuns, wOrderID, wOrder, wApprove, wOnApprove, wFallback,
                    wOutcome, wClose >>

\* The restart's token exchange rejected: restart() rejects, no checkout.
WalletRestartExchangeFailed ==
    /\ wrpc = "exchange"
    /\ wrpc' = "done"
    /\ UNCHANGED << wApproval, wpc, wRuns, wOrderID, wOrder, wApprove, wOnApprove, wFallback,
                    wCheckout, wOutcome, wClose >>

\* close(): resolves at once, nothing to release.
walletClose ==
    /\ wClose < MaxWalletClose
    /\ wClose' = wClose + 1
    /\ UNCHANGED << wApproval, wpc, wRuns, wOrderID, wOrder, wApprove, wOnApprove, wFallback,
                    wCheckout, wOutcome, wrpc >>

\* ------------------------------------------------------------------------
\* Wallet capture: eligibility predicates and the preconditions of init
\* ------------------------------------------------------------------------
MaxInstruments == 2

\* undefined, as the value of an absent string field
Undefined == "undefined"

InstrumentIDs == {"I1", "I2"}
FundingSources == {"paypal", "venmo", "card"}

\* An instrument of the wallet; type "" is an empty (falsy) type.
Instruments == [instrumentID : InstrumentIDs, oneClick : BOOLEAN, type : {"", "card"}]

InstrumentLists == UNION { [1..n -> Instruments] : n \in 0..MaxInstruments }

\* serviceData.wallet: absent, or an object keyed by funding source whose
\* entries hold an instruments array.
NoWallet == [defined |-> FALSE, entries |-> [f \in {} |-> << >>]]

Wallets ==
    {NoWallet}
    \cup {[defined |-> TRUE, entries |-> [f \in {} |-> << >>]]}
    \cup {[defined |-> TRUE, entries |-> [f \in {fs} |-> l]] :
             fs \in {"paypal", "venmo"}, l \in InstrumentLists}

VARIABLES
    props,            \* [onShippingChange]
    serviceData,      \* [buyerAccessToken, wallet]
    payment,          \* [fundingSource, win, instrumentID]
    eligible,         \* result of isWalletCaptureEligible: "none" before the call
    paymentEligible,  \* result of isWalletCapturePaymentEligible
    initResult        \* result of initWalletCapture: "instance" or the error thrown

evars == << props, serviceData, payment, eligible, paymentEligible, initResult >>

\* JavaScript truthiness of a string-valued field.
Truthy(s) == s # Undefined /\ s # ""

\* wallet[fundingSource]
walletFunding(wallet, fundingSource) ==
    IF fundingSource \in DOMAIN wallet.entries
    THEN [defined |-> TRUE, instruments |-> wallet.entries[fundingSource]]
    ELSE [defined |-> FALSE, instruments |-> << >>]

\* instruments.find(inst => inst.instrumentID === instrumentID): the index of
\* the first match, 0 when there is none.
find(instruments, instrumentID) ==
    LET matches == {i \in 1..Len(instruments) : instruments[i].instrumentID = instrumentID}
    IN  IF matches = {} THEN 0 ELSE CHOOSE i \in matches : \A j \in matches : i <= j

\* A variant that does not look at the buyer access token.
isWalletCaptureEligibleNoToken(p, sd) ==
    IF ~sd.wallet.defined THEN FALSE
    ELSE IF p.onShippingChange THEN FALSE
    ELSE TRUE

isWalletCaptureEligible(p, sd) ==
    IF ~sd.wallet.defined THEN FALSE
    ELSE IF ~Truthy(sd.buyerAccessToken) THEN FALSE
    ELSE IF p.onShippingChange THEN FALSE
    ELSE TRUE

\* A variant that skips the oneClick test.
isWalletCapturePaymentEligibleAnyInstrument(sd, pay) ==
    LET funding == walletFunding(sd.wallet, pay.fundingSource)
        k == find(funding.instruments, pay.instrumentID)
    IN  IF pay.fundingSource # "paypal" THEN FALSE
        ELSE IF Truthy(pay.win) THEN FALSE
        ELSE IF ~sd.wallet.defined THEN FALSE
        ELSE IF ~Truthy(pay.instrumentID) THEN FALSE
        ELSE IF ~funding.defined THEN FALSE
        ELSE IF k = 0 THEN FALSE
        ELSE IF ~Truthy(funding.instruments[k].type) THEN FALSE
        ELSE TRUE

isWalletCapturePaymentEligible(sd, pay) ==
    LET funding == walletFunding(sd.wallet, pay.fundingSource)
        k == find(funding.instruments, pay.instrumentID)
    IN  IF pay.fundingSource # "paypal" THEN FALSE
        ELSE IF Truthy(pay.win) THEN FALSE
        ELSE IF ~sd.wallet.defined THEN FALSE
        ELSE IF ~Truthy(pay.instrumentID) THEN FALSE
        ELSE IF ~funding.defined THEN FALSE
        ELSE IF k = 0 THEN FALSE
        ELSE IF ~funding.instruments[k].oneClick THEN FALSE
        ELSE IF ~Truthy(funding.instruments[k].type) THEN FALSE
        ELSE TRUE

\* A variant of the preconditions that leaves the instrument type unchecked.
walletCapturePreconditionsNoType(sd, pay) ==
    LET funding == walletFunding(sd.wallet, pay.fundingSource)
        k == find(funding.instruments, pay.instrumentID)
    IN  IF ~Truthy(pay.instrumentID) THEN "threw_instrumentID"
        ELSE IF ~Truthy(sd.buyerAccessToken) THEN "threw_buyerAccessToken"
        ELSE IF ~sd.wallet.defined THEN "threw_TypeError"
        ELSE IF ~funding.defined THEN "threw_wallet"
        ELSE IF k = 0 THEN "threw_instrument"
        ELSE "instance"

\* The preconditions of initWalletCapture: the error thrown, or "instance"
\* when the flow instance is returned. wallet[fundingSource] on an absent
\* wallet is a TypeError.
walletCapturePreconditions(sd, pay) ==
    LET funding == walletFunding(sd.wallet, pay.fundingSource)
        k == find(funding.instruments, pay.instrumentID)
    IN  IF ~Truthy(pay.instrumentID) THEN "threw_instrumentID"
        ELSE IF ~Truthy(sd.buyerAccessToken) THEN "threw_buyerAccessToken"
        ELSE IF ~sd.wallet.defined THEN "threw_TypeError"
        ELSE IF ~funding.defined THEN "threw_wallet"
        ELSE IF k = 0 THEN "threw_instrument"
        ELSE IF ~Truthy(funding.instruments[k].type) THEN "threw_type"
        ELSE "instance"

\* The inputs of one evaluation.
EligibilityInputs ==
    /\ props \in [onShippingChange : BOOLEAN]
    /\ serviceData \in [buyerAccessToken : {Undefined, "token"}, wallet : Wallets]
    /\ payment \in [fundingSource : FundingSources, win : {Undefined, "win"},
                    instrumentID : InstrumentIDs \cup {Undefined}]
    /\ eligible = "none"
    /\ paymentEligible = "none"
    /\ initResult = "none"

\* The inputs of the attempt the two flow models run: an eligible one-click
\* instrument, nothing evaluated yet.
EligibilityIdle ==
    /\ props = [onShippingChange |-> FALSE]
    /\ serviceData =
         [buyerAccessToken |-> "token",
          wallet |-> [defined |-> TRUE,
                      entries |-> [f \in {"paypal"} |->
                                     << [instrumentID |-> "I1", oneClick |-> TRUE,
                                         type |-> "card"] >>]]]
    /\ payment = [fundingSource |-> "paypal", win |-> Undefined, instrumentID |-> "I1"]
    /\ eligible = "none"
    /\ paymentEligible = "none"
    /\ initResult = "none"

BoolResult(b) == IF b THEN "true" ELSE "false"

EvalWalletCaptureEligible ==
    /\ eligible = "none"
    /\ eligible' = BoolResult(isWalletCaptureEligible(props, serviceData))
    /\ UNCHANGED << props, serviceData, payment, paymentEligible, initResult >>

EvalWalletCapturePaymentEligible ==
    /\ paymentEligible = "none"
    /\ paymentEligible' = BoolResult(isWalletCapturePaymentEligible(serviceData, payment))
    /\ UNCHANGED << props, serviceData, payment, eligible, initResult >>

\* initWalletCapture: throws on a failed precondition, otherwise returns the
\* instance; it calls nothing else, the flow's operations start with start().
initWalletCapture ==
    /\ initResult = "none"
    /\ initResult' = walletCapturePreconditions(serviceData, payment)
    /\ UNCHANGED << props, serviceData, payment, eligible, paymentEligible >>

\* ------------------------------------------------------------------------
\* Native flow: module state (session socket) and one flow instance
\* ------------------------------------------------------------------------
MaxSetups == 2
MaxStartCalls == 2
MaxCloseCalls == 2
MaxCallbacks == 2

SockIds == 1..MaxSetups

\* MESSAGE types the controller registers a handler for.
HandlerTypes == {"getProps", "onApprove", "onCancel", "onError", "fallback"}

VARIABLES
    nSetups,        \* number of setup() calls (uniqueID() calls) so far
    sessionUID,     \* module variable sessionUID (0: undefined)
    nativeSocket,   \* module variable nativeSocket (0: undefined or null)
    sockets,        \* the sockets firebaseSocket created, by sessionUID
    initialPageUrl, \* module variable initialPageUrl
    pagePending,    \* getPageUrl() call of setup() not yet resolved (0 or 1)
    platform,       \* browser the button runs in
    appSwitch,      \* instance variable appSwitch
    win,            \* the popup window click() opened
    cpc,            \* position of click()
    clickOutcome,   \* outcome of click(); a resolved click keeps whether onClick was valid
    instance,       \* instance variable instance (whose close the flow delegates to)
    checkout,       \* payment handed to the latest checkout.init
    startCalls,     \* number of start() calls
    startMemo,      \* memoize cache of start: the promise of its first run (0: empty)
    startReturned,  \* the promise each start() call returned
    spc,            \* position of the start() run
    startOutcome,   \* outcome of the promise of the start() run
    setPropsSent,   \* number of setProps messages sent
    closeTimers,    \* inner close() calls waiting for their 500ms delay
    pendingClose,   \* close messages sent and not yet acknowledged, by socket
    closeCalls,     \* number of calls of the returned close()
    callbacks,      \* number of buyer callbacks (onApprove, onCancel, onError) invoked
    approved        \* whether onApprove was invoked (and handed restart)

nvars == << nSetups, sessionUID, nativeSocket, sockets, initialPageUrl, pagePending,
            platform, appSwitch, win, cpc, clickOutcome, instance, checkout,
            startCalls, startMemo, startReturned, spc, startOutcome, setPropsSent,
            closeTimers, pendingClose, closeCalls, callbacks, approved >>

vars == << wvars, nvars, evars >>

NoHandlers == [t \in HandlerTypes |-> 0]
NoSocket == [created |-> FALSE, open |-> FALSE, on |-> NoHandlers, reconnects |-> 0]

NoCheckout ==
    [win |-> "absent", buyerAccessToken |-> "absent", venmoPayloadID |-> "absent",
     isClick |-> TRUE]

\* let instance = { close: promiseNoop }
initialInstance == [kind |-> "noop", sock |-> 0]

NativeInit ==
    /\ nSetups = 0
    /\ sessionUID = 0
    /\ nativeSocket = 0
    /\ sockets = [k \in SockIds |-> NoSocket]
    /\ initialPageUrl = "unset"
    /\ pagePending = 0
    /\ platform \in {"ios_safari", "android_chrome"}
    /\ appSwitch = "undef"
    /\ win = "none"
    /\ cpc = "idle"
    /\ clickOutcome = "none"
    /\ instance = initialInstance
    /\ checkout = NoCheckout
    /\ startCalls = 0
    /\ startMemo = 0
    /\ startReturned = << >>
    /\ spc = "idle"
    /\ startOutcome = "none"
    /\ setPropsSent = 0
    /\ closeTimers = 0
    /\ pendingClose = [k \in SockIds |-> 0]
    /\ closeCalls = 0
    /\ callbacks = 0
    /\ approved = FALSE

Init == WalletInit /\ NativeInit /\ EligibilityIdle

\* uniqueID(): a fresh identifier on every call.
uniqueID == nSetups + 1

\* getNativeSocket, memoized on its arguments: the socket already made for
\* this sessionUID, or else a new firebaseSocket.
getNativeSocket(uid) ==
    IF sockets[uid].created
    THEN sockets
    ELSE [sockets EXCEPT ![uid] = [created |-> TRUE, open |-> TRUE, on |-> NoHandlers,
                                   reconnects |-> 0]]

\* setup(): new sessionUID, socket for it, error handler registered on it,
\* getPageUrl() issued. The page runs its setup calls one after the other,
\* before the buyer's first click.
setupNative ==
    /\ nSetups < MaxSetups
    /\ pagePending = 0
    /\ cpc = "idle" /\ startCalls = 0 /\ closeCalls = 0
    /\ nSetups' = nSetups + 1
    /\ sessionUID' = uniqueID
    /\ sockets' = getNativeSocket(uniqueID)
    /\ nativeSocket' = uniqueID
    /\ pagePending' = pagePending + 1
    /\ UNCHANGED << initialPageUrl, platform, appSwitch, win, cpc,
                    clickOutcome, instance, checkout, startCalls, startMemo,
                    startReturned, spc, startOutcome, setPropsSent, closeTimers,
                    pendingClose, closeCalls, callbacks, approved >>

\* getPageUrl() of setup() resolved: initialPageUrl = pageUrl.
SetupPageUrlResolved ==
    /\ pagePending > 0
    /\ pagePending' = pagePending - 1
    /\ initialPageUrl' = "url"
    /\ UNCHANGED << nSetups, sessionUID, nativeSocket, sockets, platform, appSwitch,
                    win, cpc, clickOutcome, instance, checkout, startCalls,
                    startMemo, startReturned, spc, startOutcome, setPropsSent,
                    closeTimers, pendingClose, closeCalls, callbacks, approved >>

\* The handler setup() registered with nativeSocket.onError, run on a
\* transport error of any socket setup() made: nativeSocket = null.
NativeSocketError ==
    /\ nativeSocket # 0
    /\ \E k \in SockIds : sockets[k].created
    /\ nativeSocket' = 0
    /\ UNCHANGED << nSetups, sessionUID, sockets, initialPageUrl, pagePending,
                    platform, appSwitch, win, cpc, clickOutcome, instance,
                    checkout, startCalls, startMemo, startReturned, spc,
                    startOutcome, setPropsSent, closeTimers, pendingClose, closeCalls,
                    callbacks, approved >>

\* The props isNativeOptedIn reads, and what localStorage answers for the
\* '__native_checkout__' item (reading it may throw).
NativeProps == [enableNativeCheckout : BOOLEAN, localStorage : {"set", "unset", "throws"}]

\* The payments isNativePaymentEligible is asked about.
NativePayments == [win : {Undefined, "win"}, fundingSource : FundingSources]

isNativeOptedIn(p) ==
    IF p.enableNativeCheckout THEN TRUE
    ELSE IF p.localStorage = "set" THEN TRUE
    ELSE FALSE

\* A payment predicate that does not look at the session socket.
isNativePaymentEligibleWithoutSocket(pay, p) ==
    IF Truthy(pay.win) THEN FALSE
    ELSE IF pay.fundingSource # "paypal" /\ pay.fundingSource # "venmo" THEN FALSE
    ELSE IF pay.fundingSource = "venmo" /\ ~isNativeOptedIn(p) THEN FALSE
    ELSE TRUE

isNativePaymentEligible(pay, p) ==
    IF Truthy(pay.win) THEN FALSE
    ELSE IF pay.fundingSource # "paypal" /\ pay.fundingSource # "venmo" THEN FALSE
    ELSE IF nativeSocket = 0 THEN FALSE
    ELSE IF pay.fundingSource = "venmo" /\ ~isNativeOptedIn(p) THEN FALSE
    ELSE TRUE

\* A flow instance exists once setup() has resolved.
Initialised == initialPageUrl = "url"

isWindowClosed == win \notin {"none", "open"}

\* appSwitchPopup's didSwitch().
didSwitch ==
    \/ appSwitch = "switched"
    \/ platform = "android_chrome" /\ appSwitch = "popup" /\ isWindowClosed

\* appSwitchPopup's close(): win.close() if there is a window.
appSwitchClose ==
    IF appSwitch = "popup" /\ win = "open" THEN "closed_by_controller" ELSE win

\* A connectNative that leaves the fallback handler out and does not
\* reconnect.
connectNativeUnready(s) ==
    [sockets EXCEPT ![s] = [created |-> @.created, open |-> @.open,
                            on |-> [t \in HandlerTypes |->
                                      IF t = "fallback" THEN @.on[t] ELSE @.on[t] + 1],
                            reconnects |-> @.reconnects]]

\* The socket.on registrations and socket.reconnect() of connectNative.
connectNative(s) ==
    [sockets EXCEPT ![s] = [created |-> @.created, open |-> TRUE,
                            on |-> [t \in HandlerTypes |-> @.on[t] + 1],
                            reconnects |-> @.reconnects + 1]]

\* socket.close() on socket s.
socketClose(s) == [sockets EXCEPT ![s].open = FALSE]

\* A fallback payment that leaves the win field out.
checkoutPaymentWithoutWin(w, buyerAccessToken, venmoPayloadID) ==
    [win |-> "absent", buyerAccessToken |-> buyerAccessToken,
     venmoPayloadID |-> venmoPayloadID, isClick |-> FALSE]

\* The payment fallbackToWebCheckout hands to checkout.init.
checkoutPayment(w, buyerAccessToken, venmoPayloadID) ==
    [win |-> w, buyerAccessToken |-> buyerAccessToken,
     venmoPayloadID |-> venmoPayloadID, isClick |-> FALSE]

\* click(): open() now; the onClick validation settles later.
click ==
    /\ Initialised
    /\ cpc = "idle"
    /\ \E opened \in BOOLEAN :
         IF opened
         THEN /\ appSwitch' = "popup"
              /\ win' = "open"
              /\ cpc' = "validating"
              /\ clickOutcome' = "pending"
         ELSE IF platform = "ios_safari"
              THEN /\ appSwitch' = "switched"
                   /\ cpc' = "validating"
                   /\ clickOutcome' = "pending"
                   /\ UNCHANGED win
              ELSE /\ cpc' = "done"
                   /\ clickOutcome' = "threw_PopupOpenError"
                   /\ UNCHANGED << appSwitch, win >>
    /\ UNCHANGED << nSetups, sessionUID, nativeSocket, sockets, initialPageUrl,
                    pagePending, platform, instance, checkout, startCalls, startMemo,
                    startReturned, spc, startOutcome, setPropsSent, closeTimers,
                    pendingClose, closeCalls, callbacks, approved >>

\* A click whose validation outcome never calls close().
ClickValidatedWithoutClose ==
    /\ cpc = "validating"
    /\ cpc' = "done"
    /\ \E v \in {"valid", "invalid", "throws"} :
         clickOutcome' = CASE v = "throws" -> "rejected_onClick"
                           [] v = "invalid" -> "resolved_not_valid"
                           [] OTHER -> "resolved"
    /\ UNCHANGED << nSetups, sessionUID, nativeSocket, sockets, initialPageUrl,
                    pagePending, platform, appSwitch, win, instance, checkout,
                    startCalls, startMemo, startReturned, spc, startOutcome,
                    setPropsSent, closeTimers, pendingClose, closeCalls, callbacks,
                    approved >>

\* onClick settled: not valid, or an error, calls the inner close().
ClickValidated ==
    /\ cpc = "validating"
    /\ cpc' = "done"
    /\ \E v \in {"valid", "invalid", "throws"} :
         /\ closeTimers' = IF v = "valid" THEN closeTimers ELSE closeTimers + 1
         /\ clickOutcome' = CASE v = "throws" -> "rejected_onClick"
                               [] v = "invalid" -> "resolved_not_valid"
                               [] OTHER -> "resolved"
    /\ UNCHANGED << nSetups, sessionUID, nativeSocket, sockets, initialPageUrl,
                    pagePending, platform, appSwitch, win, instance, checkout,
                    startCalls, startMemo, startReturned, spc, startOutcome,
                    setPropsSent, pendingClose, closeCalls, callbacks, approved >>

\* The native app took over on Android Chrome: the popup closes on its own.
AppTakesOver ==
    /\ platform = "android_chrome"
    /\ win = "open"
    /\ win' = "closed_by_switch"
    /\ UNCHANGED << nSetups, sessionUID, nativeSocket, sockets, initialPageUrl,
                    pagePending, platform, appSwitch, cpc, clickOutcome,
                    instance, checkout, startCalls, startMemo, startReturned, spc,
                    startOutcome, setPropsSent, closeTimers, pendingClose, closeCalls,
                    callbacks, approved >>

\* The buyer closes the popup window.
BuyerClosesPopup ==
    /\ win = "open"
    /\ win' = "closed_by_buyer"
    /\ UNCHANGED << nSetups, sessionUID, nativeSocket, sockets, initialPageUrl,
                    pagePending, platform, appSwitch, cpc, clickOutcome,
                    instance, checkout, startCalls, startMemo, startReturned, spc,
                    startOutcome, setPropsSent, closeTimers, pendingClose, closeCalls,
                    callbacks, approved >>

\* The inner close() after its 500ms delay: on a switch connectNative().close()
\* (registrations, reconnect, close message), then appSwitch.close().
\* appSwitch undefined, or no socket on a switch, throws inside the promise.
close ==
    /\ closeTimers > 0
    /\ closeTimers' = closeTimers - 1
    /\ IF appSwitch = "undef"
       THEN UNCHANGED << sockets, pendingClose, win >>
       ELSE IF didSwitch
            THEN IF nativeSocket = 0
                 THEN UNCHANGED << sockets, pendingClose, win >>
                 ELSE /\ sockets' = connectNative(nativeSocket)
                      /\ pendingClose' = [pendingClose EXCEPT ![nativeSocket] = @ + 1]
                      /\ win' = appSwitchClose
            ELSE /\ win' = appSwitchClose
                 /\ UNCHANGED << sockets, pendingClose >>
    /\ UNCHANGED << nSetups, sessionUID, nativeSocket, initialPageUrl, pagePending,
                    platform, appSwitch, cpc, clickOutcome, instance,
                    checkout, startCalls, startMemo, startReturned, spc,
                    startOutcome, setPropsSent, closeCalls, callbacks, approved >>

\* closeNative: the close message was acknowledged, socket.close().
CloseAcked ==
    /\ \E s \in SockIds :
         /\ pendingClose[s] > 0
         /\ pendingClose' = [pendingClose EXCEPT ![s] = @ - 1]
         /\ sockets' = socketClose(s)
    /\ UNCHANGED << nSetups, sessionUID, nativeSocket, initialPageUrl, pagePending,
                    platform, appSwitch, win, cpc, clickOutcome, instance,
                    checkout, startCalls, startMemo, startReturned, spc,
                    startOutcome, setPropsSent, closeTimers, closeCalls, callbacks, approved >>

\* closeNative: the close message failed, the socket is not closed.
CloseSendFailed ==
    /\ \E s \in SockIds :
         /\ pendingClose[s] > 0
         /\ pendingClose' = [pendingClose EXCEPT ![s] = @ - 1]
    /\ UNCHANGED << nSetups, sessionUID, nativeSocket, sockets, initialPageUrl,
                    pagePending, platform, appSwitch, win, cpc, clickOutcome,
                    instance, checkout, startCalls, startMemo, startReturned, spc,
                    startOutcome, setPropsSent, closeTimers, closeCalls, callbacks, approved >>

\* appSwitchPopup's getWindow(), as the win field of a payment.
getWindow == IF appSwitch = "popup" THEN "click_popup" ELSE "absent"

\* fallbackToWebCheckout: instance = checkout.init(...), then instance.start().
fallbackToWebCheckout(w, buyerAccessToken, venmoPayloadID) ==
    /\ instance' = [kind |-> "checkout", sock |-> 0]
    /\ checkout' = checkoutPayment(w, buyerAccessToken, venmoPayloadID)

\* start without memoize: the cache never answers.
memoMiss == FALSE

\* memoize(start): whether the cache holds the promise of an earlier call.
memoHit == startMemo # 0

\* start(): a cache hit returns the cached promise; the first call runs
\* createOrder(). The button calls start() after click().
start ==
    /\ Initialised
    /\ cpc # "idle"
    /\ startCalls < MaxStartCalls
    /\ startCalls' = startCalls + 1
    /\ IF memoHit
       THEN /\ startReturned' = Append(startReturned, startMemo)
            /\ UNCHANGED << startMemo, spc, startOutcome >>
       ELSE /\ startMemo' = startCalls + 1
            /\ startReturned' = Append(startReturned, startCalls + 1)
            /\ spc' = "order"
            /\ startOutcome' = "pending"
    /\ UNCHANGED << nSetups, sessionUID, nativeSocket, sockets, initialPageUrl,
                    pagePending, platform, appSwitch, win, cpc, clickOutcome,
                    instance, checkout, setPropsSent, closeTimers, pendingClose,
                    closeCalls, callbacks, approved >>

\* The catch of start(): close(), then the error is rethrown.
startCatch(err) ==
    /\ closeTimers' = closeTimers + 1
    /\ spc' = "done"
    /\ startOutcome' = err

\* createOrder() of start() resolved: the app-switch check. Switched:
\* instance = connectNative(), instance.setProps() issues getSDKProps().
\* Not switched: fallbackToWebCheckout({ win: appSwitch.getWindow() }).
StartOrderCreated ==
    /\ spc = "order"
    /\ IF appSwitch = "undef"
       THEN /\ startCatch("rejected_TypeError")
            /\ UNCHANGED << sockets, instance, checkout >>
       ELSE IF didSwitch
            THEN IF nativeSocket = 0
                 THEN /\ startCatch("rejected_socket_not_established")
                      /\ UNCHANGED << sockets, instance, checkout >>
                 ELSE /\ sockets' = connectNative(nativeSocket)
                      /\ instance' = [kind |-> "native", sock |-> nativeSocket]
                      /\ spc' = "sdkprops"
                      /\ UNCHANGED << checkout, closeTimers, startOutcome >>
            ELSE /\ fallbackToWebCheckout(getWindow, "absent", "absent")
                 /\ spc' = "checkout"
                 /\ UNCHANGED << sockets, closeTimers, startOutcome >>
    /\ UNCHANGED << nSetups, sessionUID, nativeSocket, initialPageUrl, pagePending,
                    platform, appSwitch, win, cpc, clickOutcome, startCalls,
                    startMemo, startReturned, setPropsSent, pendingClose, closeCalls,
                    callbacks, approved >>

\* createOrder() of start() rejected.
StartOrderFailed ==
    /\ spc = "order"
    /\ startCatch("rejected_createOrder")
    /\ UNCHANGED << nSetups, sessionUID, nativeSocket, sockets, initialPageUrl,
                    pagePending, platform, appSwitch, win, cpc, clickOutcome,
                    instance, checkout, startCalls, startMemo, startReturned,
                    setPropsSent, pendingClose, closeCalls, callbacks, approved >>

\* setProps: getSDKProps() resolved, socket.send(SET_PROPS, sdkProps).
StartSDKPropsResolved ==
    /\ spc = "sdkprops"
    /\ setPropsSent' = setPropsSent + 1
    /\ spc' = "send"
    /\ UNCHANGED << nSetups, sessionUID, nativeSocket, sockets, initialPageUrl,
                    pagePending, platform, appSwitch, win, cpc, clickOutcome,
                    instance, checkout, startCalls, startMemo, startReturned,
                    startOutcome, closeTimers, pendingClose, closeCalls, callbacks, approved >>

\* setProps: getSDKProps() rejected.
StartSDKPropsFailed ==
    /\ spc = "sdkprops"
    /\ startCatch("rejected_getSDKProps")
    /\ UNCHANGED << nSetups, sessionUID, nativeSocket, sockets, initialPageUrl,
                    pagePending, platform, appSwitch, win, cpc, clickOutcome,
                    instance, checkout, startCalls, startMemo, startReturned,
                    setPropsSent, pendingClose, closeCalls, callbacks, approved >>

\* setProps: the send was acknowledged, start() resolves.
StartSetPropsAcked ==
    /\ spc = "send"
    /\ spc' = "done"
    /\ startOutcome' = "resolved"
    /\ UNCHANGED << nSetups, sessionUID, nativeSocket, sockets, initialPageUrl,
                    pagePending, platform, appSwitch, win, cpc, clickOutcome,
                    instance, checkout, startCalls, startMemo, startReturned,
                    setPropsSent, closeTimers, pendingClose, closeCalls, callbacks, approved >>

\* setProps: the send failed.
StartSetPropsFailed ==
    /\ spc = "send"
    /\ startCatch("rejected_send")
    /\ UNCHANGED << nSetups, sessionUID, nativeSocket, sockets, initialPageUrl,
                    pagePending, platform, appSwitch, win, cpc, clickOutcome,
                    instance, checkout, startCalls, startMemo, startReturned,
                    setPropsSent, pendingClose, closeCalls, callbacks, approved >>

\* The fallback checkout's start() resolved, start() resolves.
StartCheckoutStarted ==
    /\ spc = "checkout"
    /\ spc' = "done"
    /\ startOutcome' = "resolved"
    /\ UNCHANGED << nSetups, sessionUID, nativeSocket, sockets, initialPageUrl,
                    pagePending, platform, appSwitch, win, cpc, clickOutcome,
                    instance, checkout, startCalls, startMemo, startReturned,
                    setPropsSent, closeTimers, pendingClose, closeCalls, callbacks, approved >>

\* The fallback checkout's start() rejected.
StartCheckoutFailed ==
    /\ spc = "checkout"
    /\ startCatch("rejected_checkout")
    /\ UNCHANGED << nSetups, sessionUID, nativeSocket, sockets, initialPageUrl,
                    pagePending, platform, appSwitch, win, cpc, clickOutcome,
                    instance, checkout, startCalls, startMemo, startReturned,
                    setPropsSent, pendingClose, closeCalls, callbacks, approved >>

\* A returned close wired to the inner close(): it waits for the delay.
instanceCloseInner ==
    /\ Initialised
    /\ closeCalls < MaxCloseCalls
    /\ closeCalls' = closeCalls + 1
    /\ closeTimers' = closeTimers + 1
    /\ UNCHANGED << nSetups, sessionUID, nativeSocket, sockets, initialPageUrl,
                    pagePending, platform, appSwitch, win, cpc, clickOutcome,
                    instance, checkout, startCalls, startMemo, startReturned, spc,
                    startOutcome, setPropsSent, pendingClose, callbacks, approved >>

\* The returned close: () => instance.close(). The initial instance's close
\* is promiseNoop and resolves at once; connectNative's is closeNative, which
\* sends the close message; a checkout instance's is the web checkout's close,
\* which touches nothing of this flow.
instanceClose ==
    /\ Initialised
    /\ closeCalls < MaxCloseCalls
    /\ closeCalls' = closeCalls + 1
    /\ pendingClose' = IF instance.kind = "native"
                       THEN [pendingClose EXCEPT ![instance.sock] = @ + 1]
                       ELSE pendingClose
    /\ UNCHANGED << win, nSetups, sessionUID, nativeSocket, sockets, initialPageUrl,
                    pagePending, platform, appSwitch, cpc, clickOutcome,
                    instance, checkout, startCalls, startMemo, startReturned, spc,
                    startOutcome, setPropsSent, closeTimers, callbacks, approved >>

\* The message transport hands the native app's messages to the handlers
\* registered on a socket, in any order and number, also when the handler
\* has since called socket.close(): the messages were already on their way.
Registered(s, t) == sockets[s].on[t] > 0

\* The data of a fallback message: with or without the buyer's access token
\* and venmo payload id.
FallbackData ==
    { [buyerAccessToken |-> "absent", venmoPayloadID |-> "absent"],
      [buyerAccessToken |-> "token", venmoPayloadID |-> "payload"] }

\* GET_PROPS handler: answers with getSDKProps().
HandleGetProps ==
    /\ \E s \in SockIds : Registered(s, "getProps")
    /\ UNCHANGED nvars

\* ON_APPROVE, ON_CANCEL, ON_ERROR handlers: socket.close(), then the buyer
\* callback of the same name.
HandleCallback ==
    /\ callbacks < MaxCallbacks
    /\ \E s \in SockIds, t \in {"onApprove", "onCancel", "onError"} :
         /\ Registered(s, t)
         /\ sockets' = socketClose(s)
         /\ callbacks' = callbacks + 1
         /\ approved' = (approved \/ t = "onApprove")
    /\ UNCHANGED << nSetups, sessionUID, nativeSocket, initialPageUrl, pagePending,
                    platform, appSwitch, win, cpc, clickOutcome, instance,
                    checkout, startCalls, startMemo, startReturned, spc,
                    startOutcome, setPropsSent, closeTimers, pendingClose, closeCalls >>

\* FALLBACK handler: socket.close(), then
\* fallbackToWebCheckout({ buyerAccessToken, venmoPayloadID }).
HandleFallback ==
    /\ \E s \in SockIds, data \in FallbackData :
         /\ Registered(s, "fallback")
         /\ sockets' = socketClose(s)
         /\ fallbackToWebCheckout("absent", data.buyerAccessToken, data.venmoPayloadID)
    /\ UNCHANGED << nSetups, sessionUID, nativeSocket, initialPageUrl, pagePending,
                    platform, appSwitch, win, cpc, clickOutcome, startCalls,
                    startMemo, startReturned, spc, startOutcome, setPropsSent,
                    closeTimers, pendingClose, closeCalls, callbacks, approved >>

\* restart(), the action handed to onApprove: fallbackToWebCheckout().
nativeRestart ==
    /\ approved
    /\ fallbackToWebCheckout("absent", "absent", "absent")
    /\ UNCHANGED << nSetups, sessionUID, nativeSocket, sockets, initialPageUrl,
                    pagePending, platform, appSwitch, win, cpc, clickOutcome,
                    startCalls, startMemo, startReturned, spc, startOutcome,
                    setPropsSent, closeTimers, pendingClose, closeCalls, callbacks, approved >>

Next ==
    \/ setupNative /\ UNCHANGED << wvars, evars >>
    \/ SetupPageUrlResolved /\ UNCHANGED << wvars, evars >>
    \/ NativeSocketError /\ UNCHANGED << wvars, evars >>
    \/ click /\ UNCHANGED << wvars, evars >>
    \/ ClickValidated /\ UNCHANGED << wvars, evars >>
    \/ AppTakesOver /\ UNCHANGED << wvars, evars >>
    \/ BuyerClosesPopup /\ UNCHANGED << wvars, evars >>
    \/ close /\ UNCHANGED << wvars, evars >>
    \/ CloseAcked /\ UNCHANGED << wvars, evars >>
    \/ CloseSendFailed /\ UNCHANGED << wvars, evars >>
    \/ start /\ UNCHANGED << wvars, evars >>
    \/ StartOrderCreated /\ UNCHANGED << wvars, evars >>
    \/ StartOrderFailed /\ UNCHANGED << wvars, evars >>
    \/ StartSDKPropsResolved /\ UNCHANGED << wvars, evars >>
    \/ StartSDKPropsFailed /\ UNCHANGED << wvars, evars >>
    \/ StartSetPropsAcked /\ UNCHANGED << wvars, evars >>
    \/ StartSetPropsFailed /\ UNCHANGED << wvars, evars >>
    \/ StartCheckoutStarted /\ UNCHANGED << wvars, evars >>
    \/ StartCheckoutFailed /\ UNCHANGED << wvars, evars >>
    \/ instanceClose /\ UNCHANGED << wvars, evars >>
    \/ HandleGetProps /\ UNCHANGED << wvars, evars >>
    \/ HandleCallback /\ UNCHANGED << wvars, evars >>
    \/ HandleFallback /\ UNCHANGED << wvars, evars >>
    \/ nativeRestart /\ UNCHANGED << wvars, evars >>

Spec == Init /\ [][Next]_vars

NextWallet ==
    \/ walletStart /\ UNCHANGED << nvars, evars >>
    \/ WalletOrderCreated /\ UNCHANGED << nvars, evars >>
    \/ WalletOrderFailed /\ UNCHANGED << nvars, evars >>
    \/ WalletShippingChecked /\ UNCHANGED << nvars, evars >>
    \/ WalletLookupFailed /\ UNCHANGED << nvars, evars >>
    \/ WalletApproved /\ UNCHANGED << nvars, evars >>
    \/ WalletApproveFailed /\ UNCHANGED << nvars, evars >>
    \/ WalletOnApproveSettled /\ UNCHANGED << nvars, evars >>
    \/ WalletTokenExchanged /\ UNCHANGED << nvars, evars >>
    \/ WalletTokenExchangeFailed /\ UNCHANGED << nvars, evars >>
    \/ WalletCheckoutSettled /\ UNCHANGED << nvars, evars >>
    \/ walletRestart /\ UNCHANGED << nvars, evars >>
    \/ WalletRestartExchanged /\ UNCHANGED << nvars, evars >>
    \/ WalletRestartExchangeFailed /\ UNCHANGED << nvars, evars >>
    \/ walletClose /\ UNCHANGED << nvars, evars >>

SpecWallet == Init /\ [][NextWallet]_vars

InitEligibility == WalletInit /\ NativeInit /\ EligibilityInputs

NextEligibility ==
    \/ EvalWalletCaptureEligible /\ UNCHANGED << wvars, nvars >>
    \/ EvalWalletCapturePaymentEligible /\ UNCHANGED << wvars, nvars >>
    \/ initWalletCapture /\ UNCHANGED << wvars, nvars >>

SpecEligibility == InitEligibility /\ [][NextEligibility]_vars

\* ------------------------------------------------------------------------
\* Wallet capture: properties of start()
\* ------------------------------------------------------------------------

\* The shipping check of the current run reported shipping required.
WalletShippingIsRequired ==
    wOrder.isShippingAddressRequired /\ wOrder.shippingAddress # "full"

\* C1: in a run whose shipping check reports shipping required (the flag is
\* set and there is no full shipping address) the one-click approval is never
\* called, start() is on the fallback path entered for shipping, and every
\* checkout it initialises has isClick = FALSE.
C1_ShippingRequiredFallsBack ==
    WalletShippingIsRequired =>
        /\ wApprove = << >>
        /\ wApproval = "none"
        /\ wOnApprove = 0
        /\ wFallback = << "shipping" >>
        /\ wpc \in {"exchange", "checkout", "done"}
        /\ wpc = "checkout" => Len(wCheckout) = 1
        /\ \A i \in DOMAIN wCheckout : wCheckout[i].isClick = FALSE

\* C1 witness: shipping was required and the fallback checkout was started.
C1_Witness ==
    /\ WalletShippingIsRequired
    /\ wpc = "checkout"
    /\ Len(wCheckout) = 1

\* C2: once the approval call of a run has rejected, start() is on the
\* fallback path (token exchange, then checkout init and start), onApprove
\* was not invoked, and the outcome of start() is the fallback's outcome,
\* never the approval rejection.
C2_ApproveRejectionFallsBack ==
    wApproval = "rejected" =>
        /\ wOnApprove = 0
        /\ wFallback = << "approve_error" >>
        /\ wpc \in {"exchange", "checkout", "done"}
        /\ wpc = "exchange" => (wCheckout = << >> /\ wOutcome = "pending")
        /\ wpc = "checkout" => (Len(wCheckout) = 1 /\ wOutcome = "pending")
        /\ wpc = "done" =>
               \/ wOutcome = "rejected_exchange" /\ wCheckout = << >>
               \/ wOutcome \in {"resolved", "rejected_checkout"} /\ Len(wCheckout) = 1

\* C2 witness: the approval rejected and start() resolved through the
\* fallback checkout.
C2_Witness ==
    /\ wApproval = "rejected"
    /\ wpc = "done"
    /\ wOutcome = "resolved"

\* ------------------------------------------------------------------------
\* Native: properties of setup(), click(), start() and close()
\* ------------------------------------------------------------------------

\* Everything of the native state but the count of start() calls and the
\* promises they returned.
startEffects ==
    << nSetups, sessionUID, nativeSocket, sockets, initialPageUrl, pagePending,
       platform, appSwitch, win, cpc, clickOutcome, instance, checkout, startMemo,
       spc, startOutcome, setPropsSent, closeTimers, pendingClose, closeCalls,
       callbacks, approved >>

\* C3: start() is idempotent. A start() call after the first returns the
\* promise the first call returned and changes nothing else: no switch
\* check, no connect or registration, no checkout, no window. setProps is
\* sent at most once.
C3_StartIdempotent ==
    /\ [](setPropsSent <= 1)
    /\ [][(startCalls' = startCalls + 1 /\ startCalls >= 1) =>
            /\ startReturned'[startCalls'] = startReturned[1]
            /\ UNCHANGED startEffects]_vars

\* C3 witness: start() was called twice on an instance that switched to the
\* app and sent setProps.
C3_Witness ==
    /\ startCalls = 2
    /\ setPropsSent = 1
    /\ startOutcome = "resolved"

\* C4: the controller invokes at most one of onApprove, onCancel, onError,
\* and at most once, whatever messages reach its handlers.
C4_AtMostOneCallback == callbacks <= 1

\* C5: a setup() call made while the session socket is valid creates no
\* socket and keeps the session identifier and the socket.
C5_SetupKeepsValidSocket ==
    [][(nSetups' = nSetups + 1 /\ nativeSocket # 0) =>
         /\ sessionUID' = sessionUID
         /\ nativeSocket' = nativeSocket
         /\ sockets' = sockets]_vars

\* C6: a close() call made before any start() call, after a click() or
\* without one, is complete when it returns (nothing is left waiting: no
\* delay, no send) and touches no socket: no registration, no close message,
\* no socket.close().
C6_CloseBeforeStart ==
    [][(closeCalls' = closeCalls + 1 /\ startCalls = 0) =>
         UNCHANGED << sockets, nativeSocket, pendingClose, closeTimers, instance >>]_vars

\* C6 witness: close() was called before start() on an instance whose click
\* saw the app switch.
C6_Witness ==
    /\ closeCalls = 1
    /\ startCalls = 0
    /\ appSwitch = "switched"

\* Nothing the controller has scheduled is outstanding.
Quiescent ==
    /\ closeTimers = 0
    /\ \A s \in SockIds : pendingClose[s] = 0
    /\ spc \in {"idle", "done"}
    /\ cpc # "validating"

\* C7: after a close() call, once everything the controller scheduled has
\* run, the popup window click() opened is closed.
C7_CloseClosesPopup == (closeCalls > 0 /\ Quiescent) => win # "open"

\* C8: a second close() call has no further effect: it sends no close
\* message.
C8_CloseIdempotent ==
    [][(closeCalls' = closeCalls + 1 /\ closeCalls >= 1) =>
         pendingClose' = pendingClose]_vars

\* C9: each message type has at most one handler registered on a session
\* socket.
C9_NoDuplicateListeners ==
    \A s \in SockIds : \A t \in HandlerTypes : sockets[s].on[t] <= 1

\* C10: when createOrder() of start() has resolved and the app-switch check
\* reports no switch, the step connects and registers nothing and starts the
\* web checkout with win = the popup click() opened and isClick = FALSE.
C10_NoSwitchReusesPopup ==
    [][(/\ spc = "order"
        /\ spc' # "order"
        /\ startOutcome' # "rejected_createOrder"
        /\ appSwitch # "undef"
        /\ ~didSwitch) =>
         /\ spc' = "checkout"
         /\ sockets' = sockets
         /\ instance' = [kind |-> "checkout", sock |-> 0]
         /\ checkout'.win = "click_popup"
         /\ checkout'.isClick = FALSE
         /\ appSwitch = "popup"
         /\ win' = win]_vars

\* C10 witness: start() took the no-switch path and the checkout holds the
\* open popup of click().
C10_Witness ==
    /\ spc = "checkout"
    /\ instance.kind = "checkout"
    /\ checkout.win = "click_popup"
    /\ win = "open"

\* ------------------------------------------------------------------------
\* Wallet capture: properties of the eligibility predicates and of init
\* ------------------------------------------------------------------------

\* The wallet entry init and the payment predicate look at.
SelectedFunding == walletFunding(serviceData.wallet, payment.fundingSource)

\* The positions of the instruments carrying the selected instrumentID.
MatchingInstruments ==
    {i \in 1..Len(SelectedFunding.instruments) :
        SelectedFunding.instruments[i].instrumentID = payment.instrumentID}

\* The instrument the selection designates: the first one that matches.
IsSelectedInstrument(i) ==
    i \in MatchingInstruments /\ \A j \in MatchingInstruments : i <= j

\* One of the five preconditions of init is not met.
PreconditionMissing ==
    \/ ~Truthy(payment.instrumentID)
    \/ ~Truthy(serviceData.buyerAccessToken)
    \/ ~SelectedFunding.defined
    \/ MatchingInstruments = {}
    \/ \E i \in MatchingInstruments :
          IsSelectedInstrument(i) /\ ~Truthy(SelectedFunding.instruments[i].type)

\* C11: when instrumentID or buyerAccessToken is missing, the wallet has no
\* entry for the funding source, no instrument of the entry matches, or the
\* matching instrument has no type, init raises an error, returns no
\* instance, and no external call of the flow (order creation, lookup,
\* approval, token exchange) has been issued.
C11_InitFailsFast ==
    (initResult # "none" /\ PreconditionMissing) =>
        /\ initResult \in {"threw_instrumentID", "threw_buyerAccessToken",
                            "threw_TypeError", "threw_wallet", "threw_instrument",
                            "threw_type"}
        /\ WalletInit

C11_Witness ==
    /\ initResult = "threw_type"
    /\ Len(SelectedFunding.instruments) = 2
    /\ eligible = "true"

\* C12 as stated: the payment predicate returns true exactly when the funding
\* source is PAYPAL, win is absent, and the wallet entry contains some
\* instrument with the selected non-empty instrumentID, oneClick = true and
\* a non-empty type.
C12_EligibleIffSomeInstrument ==
    paymentEligible # "none" =>
        (paymentEligible = "true" <=>
            /\ payment.fundingSource = "paypal"
            /\ ~Truthy(payment.win)
            /\ Truthy(payment.instrumentID)
            /\ SelectedFunding.defined
            /\ \E i \in MatchingInstruments :
                  /\ SelectedFunding.instruments[i].oneClick
                  /\ Truthy(SelectedFunding.instruments[i].type))

\* C12 amended: the payment predicate returns true exactly when the funding
\* source is PAYPAL, win is absent, and the first instrument of the wallet
\* entry that carries the selected non-empty instrumentID has oneClick = true
\* and a non-empty type. Later instruments with the same id are not looked at.
C12_EligibleIffFirstInstrument ==
    paymentEligible # "none" =>
        (paymentEligible = "true" <=>
            /\ payment.fundingSource = "paypal"
            /\ ~Truthy(payment.win)
            /\ Truthy(payment.instrumentID)
            /\ SelectedFunding.defined
            /\ \E i \in MatchingInstruments :
                  /\ IsSelectedInstrument(i)
                  /\ SelectedFunding.instruments[i].oneClick
                  /\ Truthy(SelectedFunding.instruments[i].type))

C12_Witness ==
    /\ paymentEligible = "false"
    /\ payment.fundingSource = "paypal"
    /\ ~Truthy(payment.win)
    /\ MatchingInstruments = {1, 2}
    /\ ~SelectedFunding.instruments[1].oneClick
    /\ SelectedFunding.instruments[2].oneClick
    /\ Truthy(SelectedFunding.instruments[2].type)

\* C20: inputs for which isWalletCaptureEligible and
\* isWalletCapturePaymentEligible both return true pass every precondition
\* of initWalletCapture, which returns a flow instance.
C20_EligibleImpliesConstructible ==
    (eligible = "true" /\ paymentEligible = "true" /\ initResult # "none") =>
        initResult = "instance"

C20_Witness ==
    /\ eligible = "true"
    /\ paymentEligible = "true"
    /\ initResult = "instance"
    /\ Len(SelectedFunding.instruments) = 2

\* ------------------------------------------------------------------------
\* Wallet capture: order of the calls of one attempt
\* ------------------------------------------------------------------------

\* C13: in every attempt the one-click approval is issued only after
\* createOrder has resolved and the shipping check of that order has
\* completed (and reported no shipping required), at most once, and with the
\* orderID createOrder returned.
C13_ApprovalAfterShippingCheck ==
    /\ [](wApprove # << >> =>
            /\ wOrderID \in OrderIDs
            /\ wOrder \in CheckoutSessions
            /\ ~shippingRequired(wOrder)
            /\ wApprove = << wOrderID >>)
    /\ [](wOrder # NoOrder => wOrderID \in OrderIDs)
    /\ [][wApprove' # wApprove /\ wApprove' # << >> =>
            wpc = "lookup" /\ wOrder = NoOrder /\ wOrder' # NoOrder]_vars

C13_Witness ==
    /\ wRuns = 2
    /\ wpc = "approve"
    /\ wApprove = << wOrderID >>
    /\ wOrder \in CheckoutSessions

\* ------------------------------------------------------------------------
\* Native flow: order of registration and setProps
\* ------------------------------------------------------------------------

\* C14: whenever start() sends setProps after an app switch, the socket it
\* sends on already has a handler registered for each of getProps, onApprove,
\* onCancel, onError and fallback and reconnect() has been called on it
\* (the socket of the session, which start() took when it connected); start()
\* makes the five registrations and the reconnect in the step in which it
\* connects, and that step sends nothing.
C14_RegisteredBeforeSetProps ==
    /\ [][setPropsSent' # setPropsSent =>
            /\ spc = "sdkprops"
            /\ sessionUID \in SockIds
            /\ \A t \in HandlerTypes : sockets[sessionUID].on[t] >= 1
            /\ sockets[sessionUID].reconnects >= 1]_vars
    /\ [][spc' = "sdkprops" /\ spc # "sdkprops" =>
            /\ nativeSocket = sessionUID
            /\ setPropsSent' = setPropsSent
            /\ \A t \in HandlerTypes :
                  sockets'[sessionUID].on[t] = sockets[sessionUID].on[t] + 1
            /\ sockets'[sessionUID].reconnects = sockets[sessionUID].reconnects + 1]_vars

C14_Witness ==
    /\ spc = "send"
    /\ setPropsSent = 1
    /\ instance.kind = "native"
    /\ sockets[sessionUID].reconnects = 1
    /\ \A t \in HandlerTypes : sockets[sessionUID].on[t] = 1

\* ------------------------------------------------------------------------
\* Native flow: click()
\* ------------------------------------------------------------------------

\* C15: click() has opened the popup (or recorded the switch of a blocked
\* popup) before the onClick validation settles; a validation that returns
\* false or throws calls close(), after which, once the pending work has
\* settled, the popup of this click is not open; a throwing validation is the
\* rejection of click(), a false one leaves click() resolved.
C15_ClickValidationCloses ==
    /\ [](cpc = "validating" => appSwitch # "undef" /\ clickOutcome = "pending")
    /\ [][(cpc = "validating" /\ cpc' = "done") =>
            /\ clickOutcome' \in {"resolved", "resolved_not_valid", "rejected_onClick"}
            /\ clickOutcome' # "resolved" => closeTimers' = closeTimers + 1]_vars
    /\ []((clickOutcome \in {"resolved_not_valid", "rejected_onClick"} /\ Quiescent) =>
            win # "open")

C15_Witness ==
    /\ clickOutcome = "rejected_onClick"
    /\ win = "closed_by_controller"
    /\ Quiescent
    /\ startCalls = 0

\* ------------------------------------------------------------------------
\* Native flow: errors of start()
\* ------------------------------------------------------------------------

\* start() rejected with an error of its sequence.
StartRejected ==
    startOutcome \in {"rejected_createOrder", "rejected_TypeError",
                      "rejected_socket_not_established", "rejected_getSDKProps",
                      "rejected_send", "rejected_checkout"}

\* C16: once start() has rejected with an error of its sequence and the
\* pending work (the delayed close, the close notice) has settled, the popup
\* is not open and no socket the controller connected is still open.
C16_StartErrorClosesPopupAndSocket ==
    (StartRejected /\ Quiescent) =>
        /\ win # "open"
        /\ \A s \in SockIds : sockets[s].reconnects >= 1 => ~sockets[s].open

\* ------------------------------------------------------------------------
\* Native flow: lifecycle of the session socket
\* ------------------------------------------------------------------------

\* C17: a setup() leaves the session socket present (a created socket); the
\* socket variable goes from present to absent without a setup only by the
\* error handler and from absent to present only by a setup(); while it is
\* absent isNativePaymentEligible is false for every payment and props (and
\* while present it is true for some); and a start() whose app-switch check
\* finds a switch while the socket is absent rejects and touches no socket.
C17_SocketLifecycle ==
    /\ [][nSetups' # nSetups =>
            nativeSocket' \in SockIds /\ sockets'[nativeSocket'].created]_vars
    /\ [][(nativeSocket = 0 /\ nativeSocket' # 0) => nSetups' = nSetups + 1]_vars
    /\ [][(nativeSocket # 0 /\ nativeSocket' = 0) =>
            nSetups' = nSetups /\ sockets' = sockets]_vars
    /\ [](nativeSocket = 0 =>
            \A pay \in NativePayments : \A p \in NativeProps :
                ~isNativePaymentEligible(pay, p))
    /\ [](nativeSocket # 0 =>
            \E pay \in NativePayments : \E p \in NativeProps :
                isNativePaymentEligible(pay, p))
    /\ [][(spc = "order" /\ spc' # "order" /\ startOutcome' # "rejected_createOrder"
              /\ didSwitch /\ nativeSocket = 0) =>
            /\ startOutcome' = "rejected_socket_not_established"
            /\ sockets' = sockets
            /\ setPropsSent' = setPropsSent
            /\ instance' = instance]_vars

C17_Witness ==
    /\ nSetups >= 1
    /\ nativeSocket = 0
    /\ didSwitch
    /\ startOutcome = "rejected_socket_not_established"

\* ------------------------------------------------------------------------
\* Native flow: after a fallback
\* ------------------------------------------------------------------------

\* A fallback transition has happened: a checkout instance was created.
FellBack == checkout # NoCheckout

\* A fallback message hands over: the step closes the socket the message
\* came in on and creates the checkout instance with the buyer access token
\* and the venmo payload id of the message, no window, and isClick = false
\* (restart() creates it the same way with neither).
FallbackMessageStartsCheckout ==
    [][((checkout' # checkout \/ instance' # instance) /\ spc' = spc) =>
          /\ instance' = [kind |-> "checkout", sock |-> 0]
          /\ checkout'.isClick = FALSE
          /\ checkout'.win = "absent"
          /\ \E data \in FallbackData :
                /\ checkout'.buyerAccessToken = data.buyerAccessToken
                /\ checkout'.venmoPayloadID = data.venmoPayloadID
          /\ checkout'.buyerAccessToken = "token" =>
                \E s \in SockIds : Registered(s, "fallback") /\ sockets' = socketClose(s)]_vars

\* Once a fallback transition has happened (fallback message, no-switch path
\* or restart), a call of the instance's close() sends no close notice and
\* touches no socket: it only reaches the checkout instance.
CloseAfterFallbackSendsNoNotice ==
    [][(closeCalls' = closeCalls + 1 /\ FellBack) =>
          pendingClose' = pendingClose /\ sockets' = sockets]_vars

\* C18: a fallback message closes the socket and starts web checkout with
\* the message's buyerAccessToken and venmoPayloadID and isClick = false, and
\* from any fallback transition on the instance's close() reaches only the
\* checkout instance and sends no close notice on the socket.
C18_FallbackDelegation ==
    FallbackMessageStartsCheckout /\ CloseAfterFallbackSendsNoNotice

\* ------------------------------------------------------------------------
\* Native flow: the app-switch heuristic on Android Chrome
\* ------------------------------------------------------------------------

\* On Android Chrome didSwitch() is true only for a popup that closed
\* without the controller closing it.
SwitchOnlyWhenPopupClosedByItself ==
    [](platform = "android_chrome" /\ didSwitch =>
          win \in {"closed_by_switch", "closed_by_buyer"})

\* In an Android Chrome attempt whose popup the controller closed, no step
\* connects a socket (registrations, reconnect) or sends a close notice.
ControllerClosedNeverConnects ==
    [][(platform = "android_chrome" /\ win = "closed_by_controller") =>
          \A s \in SockIds :
              /\ sockets'[s].reconnects = sockets[s].reconnects
              /\ sockets'[s].on = sockets[s].on
              /\ pendingClose'[s] <= pendingClose[s]]_vars

\* C19: on Android Chrome didSwitch() reports a switch only when the popup
\* closed on its own, never for a popup the controller closed itself, so an
\* attempt in which the app did not take over never connects the socket and
\* never sends a close notice.
C19_ControllerCloseIsNoSwitch ==
    SwitchOnlyWhenPopupClosedByItself /\ ControllerClosedNeverConnects
====
